---- MODULE Spec2Model ----
(***************************************************************************)
(* GoMongoDB (src/index.js): a handle that owns one MongoClient, connects  *)
(* it lazily and delegates find / update / add / remove to the driver's    *)
(* collection methods.                                                     *)
(*                                                                         *)
(* Every method of the class is an async function.  A call runs            *)
(* synchronously up to its first await, so each action below is one        *)
(* synchronous segment of a method; calls in flight interleave at their    *)
(* awaits.  The MongoClient is the environment: it answers isConnected(),  *)
(* and each of its promises (connect, close, a collection call) is         *)
(* settled by a separate action, either fulfilled or rejected.             *)
(***************************************************************************)
EXTENDS Integers, Sequences, FiniteSets, TLC

VARIABLES
    clientState,   \* what client.isConnected() rests on
    connectCalls,  \* number of client.connect() calls made so far
    destroyed,     \* TRUE once a destroy() has completed
    store,         \* the documents of each collection, in natural order
    tasks,         \* the method calls in flight, one per slot
    calls          \* number of method calls started so far

vars == <<clientState, connectCalls, destroyed, store, tasks, calls>>

-----------------------------------------------------------------------------
(* Bounds *)

MaxSlots == 2
MaxCalls == 3

Slots == 1..MaxSlots

-----------------------------------------------------------------------------
(* Values *)

\* An optional argument: <<>> when the caller omits it, <<v>> when given.
Omitted == <<>>
Given(v) == <<v>>

EmptyObject == <<>>      \* the JavaScript object {}
EmptyArray == <<>>       \* the JavaScript array []

Doc1 == [id |-> 1, name |-> "a"]
Doc2 == [id |-> 2, name |-> "b"]
Doc3 == [id |-> 3, name |-> "c"]

Coll == <<"db", "coll">>
Other == <<"db", "other">>
Namespaces == {Coll, Other}

FilterArgs == {Omitted, Given(EmptyObject), Given([name |-> "a"]), Given([id |-> 2])}
UpdateArgs == {Omitted, Given([name |-> "z"])}
ItemsArgs == {Omitted, Given(EmptyArray), Given(<<Doc3>>)}

Errors == {"MongoNetworkError", "MongoError"}
NoError == "none"
This == "this"
NoResult == "noresult"

DataKinds == {"find", "update", "add", "remove"}

NoArg == <<>>
NoCall == [method |-> "none", ns |-> Coll, filter |-> NoArg, update |-> NoArg, items |-> NoArg]

Idle ==
    [kind |-> "none", pc |-> "idle", ns |-> Coll,
     filter |-> Omitted, update |-> Omitted, items |-> Omitted,
     observed |-> "none", checks |-> 0, connects |-> 0, connectStep |-> "none",
     dataCalls |-> 0, sent |-> NoCall, issuedIn |-> "none",
     clientErr |-> NoError, failedAt |-> "none",
     thrown |-> NoError, result |-> NoResult]

-----------------------------------------------------------------------------
(* The wrapper's pure parts *)

\* A client that never reports itself connected.
IsConnected_never == FALSE

\* client.isConnected()
IsConnected == clientState = "connected"

\* A default parameter value: filter={}, update={}, items=[] (lines 68, 86,
\* 103, 120).
Default(arg, dflt) == IF arg = Omitted THEN dflt ELSE arg[1]

\* collection(database_name, collection_name): the database, then the
\* collection within it.
collection(database_name, collection_name) == <<database_name, collection_name>>

\* A handler that throws an error of its own in place of the client's.
Rethrow_wrapped(error) == "WrappedError"

\* catch (error) { throw error; }
Rethrow(error) == error

(* The driver's collection methods, as a document store performs them.     *)
Matches(doc, f) == \A k \in DOMAIN f : k \in DOMAIN doc /\ doc[k] = f[k]

SetFields(doc, u) ==
    [k \in (DOMAIN doc) \cup (DOMAIN u) |-> IF k \in DOMAIN u THEN u[k] ELSE doc[k]]

RECURSIVE Select(_, _)
Select(docs, f) ==
    IF docs = <<>> THEN <<>>
    ELSE IF Matches(Head(docs), f) THEN <<Head(docs)>> \o Select(Tail(docs), f)
    ELSE Select(Tail(docs), f)

RECURSIVE Reject(_, _)
Reject(docs, f) ==
    IF docs = <<>> THEN <<>>
    ELSE IF Matches(Head(docs), f) THEN Reject(Tail(docs), f)
    ELSE <<Head(docs)>> \o Reject(Tail(docs), f)

UpdateMany(docs, f, u) ==
    [n \in 1..Len(docs) |-> IF Matches(docs[n], f) THEN SetFields(docs[n], u) ELSE docs[n]]

-----------------------------------------------------------------------------
(* connect(), lines 32-35 *)

\* connect() without its isConnected() check: it always calls
\* client.connect().
BeginConnect_nocheck(t) ==
    [t EXCEPT !.observed = IF IsConnected THEN "connected" ELSE "notConnected",
              !.connects = @ + 1, !.connectStep = "pending", !.pc = "awaitConnect"]

\* connect() whose client.connect() promise is not awaited: the caller
\* goes on while the connection is still being made.
BeginConnect_noawait(t) ==
    IF ~IsConnected
    THEN [t EXCEPT !.observed = "notConnected", !.checks = @ + 1,
                   !.connects = @ + 1, !.connectStep = "pending",
                   !.pc = "connected"]
    ELSE [t EXCEPT !.observed = "connected", !.checks = @ + 1,
                   !.connectStep = "ok", !.pc = "connected"]

\* connect() that joins a connection attempt already in flight instead of
\* making its own.
BeginConnect_shared(t) ==
    IF ~IsConnected
    THEN [t EXCEPT !.observed = "notConnected", !.checks = @ + 1,
                   !.connects = IF \E j \in DOMAIN tasks : tasks[j].pc = "awaitConnect"
                                THEN @ ELSE @ + 1,
                   !.connectStep = "pending", !.pc = "awaitConnect"]
    ELSE [t EXCEPT !.observed = "connected", !.checks = @ + 1,
                   !.connectStep = "ok", !.pc = "connected"]

\* The synchronous part of connect(): the check, and the client.connect()
\* call when the client is not connected.  When the client is connected the
\* body runs to its return and the promise is already fulfilled.
BeginConnect(t) ==
    IF ~IsConnected
    THEN [t EXCEPT !.observed = "notConnected", !.checks = @ + 1,
                   !.connects = @ + 1, !.connectStep = "pending",
                   !.pc = "awaitConnect"]
    ELSE [t EXCEPT !.observed = "connected", !.checks = @ + 1,
                   !.connectStep = "ok", !.pc = "connected"]

\* A rejected promise of the client ends the call: connect() and destroy()
\* have no handler, the data operations catch and rethrow.
Failed(t, error, at) ==
    [t EXCEPT !.pc = "done", !.clientErr = error, !.failedAt = at,
              !.connectStep = IF at = "connect" THEN "failed" ELSE @,
              !.thrown = IF t.kind \in DataKinds THEN Rethrow(error) ELSE error]

Free(i) == tasks[i].pc \in {"idle", "done"}
InFlight(i) == ~Free(i)

\* A method call begins in slot i, the first free one (the slots are
\* interchangeable): bookkeeping common to all the methods.
Started(i, t) ==
    /\ Free(i)
    /\ \A j \in Slots : j < i => InFlight(j)
    /\ calls < MaxCalls
    /\ tasks' = [tasks EXCEPT ![i] = t]
    /\ calls' = calls + 1

\* connect() is called.
CallConnect(i) ==
    /\ Started(i, BeginConnect([Idle EXCEPT !.kind = "connect"]))
    /\ connectCalls' = connectCalls + tasks'[i].connects
    /\ UNCHANGED <<clientState, destroyed, store>>

\* The promise of client.connect() is fulfilled.
ConnectOk(i) ==
    /\ tasks[i].pc = "awaitConnect"
    /\ clientState' = "connected"
    /\ tasks' = [tasks EXCEPT ![i].pc = "connected", ![i].connectStep = "ok"]
    /\ UNCHANGED <<connectCalls, destroyed, store, calls>>

\* The promise of client.connect() is rejected.
ConnectFail(i, error) ==
    /\ tasks[i].pc = "awaitConnect"
    /\ tasks' = [tasks EXCEPT ![i] = Failed(tasks[i], error, "connect")]
    /\ connectCalls' = connectCalls + (tasks'[i].connects - tasks[i].connects)
    /\ UNCHANGED <<clientState, destroyed, store, calls>>

\* return this (line 34), for a connect() called by the user.
ConnectReturn(i) ==
    /\ tasks[i].kind = "connect"
    /\ tasks[i].pc = "connected"
    /\ tasks' = [tasks EXCEPT ![i].pc = "done", ![i].result = This]
    /\ UNCHANGED <<clientState, connectCalls, destroyed, store, calls>>

-----------------------------------------------------------------------------
(* destroy(), lines 40-42 *)

\* destroy() is called: client.close() is issued and its promise returned.
CallDestroy(i) ==
    /\ Started(i, [Idle EXCEPT !.kind = "destroy", !.pc = "awaitClose"])
    /\ UNCHANGED <<clientState, connectCalls, destroyed, store>>

\* The promise of client.close() is fulfilled: the client is closed.
CloseOk(i) ==
    /\ tasks[i].pc = "awaitClose"
    /\ clientState' = "closed"
    /\ destroyed' = TRUE
    /\ tasks' = [tasks EXCEPT ![i].pc = "done", ![i].result = "closed"]
    /\ UNCHANGED <<connectCalls, store, calls>>

\* The promise of client.close() is rejected.
CloseFail(i, error) ==
    /\ tasks[i].pc = "awaitClose"
    /\ tasks' = [tasks EXCEPT ![i] = Failed(tasks[i], error, "close")]
    /\ UNCHANGED <<clientState, connectCalls, destroyed, store, calls>>

-----------------------------------------------------------------------------
(* find, update, add, remove: lines 68-75, 86-93, 103-110, 120-127 *)

\* find that drops the caller's filter.
FindCall_nofilter(t) ==
    [method |-> "find", ns |-> collection(t.ns[1], t.ns[2]),
     filter |-> EmptyObject, update |-> NoArg, items |-> NoArg]

\* remove that guards the empty filter by turning it into one that selects
\* nothing.
RemoveCall_narrowed(t) ==
    [method |-> "deleteMany", ns |-> collection(t.ns[1], t.ns[2]),
     filter |-> IF Default(t.filter, EmptyObject) = EmptyObject
                THEN [id |-> 0] ELSE t.filter[1],
     update |-> NoArg, items |-> NoArg]

\* The delegated calls, with the arguments the wrapper passes.
FindCall(t) ==
    [method |-> "find", ns |-> collection(t.ns[1], t.ns[2]),
     filter |-> Default(t.filter, EmptyObject), update |-> NoArg, items |-> NoArg]

UpdateCall(t) ==
    [method |-> "updateMany", ns |-> collection(t.ns[1], t.ns[2]),
     filter |-> Default(t.filter, EmptyObject),
     update |-> Default(t.update, EmptyObject), items |-> NoArg]

AddCall(t) ==
    [method |-> "insertMany", ns |-> collection(t.ns[1], t.ns[2]),
     filter |-> NoArg, update |-> NoArg, items |-> Default(t.items, EmptyArray)]

RemoveCall(t) ==
    [method |-> "deleteMany", ns |-> collection(t.ns[1], t.ns[2]),
     filter |-> Default(t.filter, EmptyObject), update |-> NoArg, items |-> NoArg]

DelegatedCall(t) ==
    CASE t.kind = "find" -> FindCall(t)
      [] t.kind = "update" -> UpdateCall(t)
      [] t.kind = "add" -> AddCall(t)
      [] t.kind = "remove" -> RemoveCall(t)

\* A data operation is called: await this.connect() runs connect() up to
\* its await.
CallData(i, kind, ns, filter, update, items) ==
    /\ Started(i, BeginConnect([Idle EXCEPT !.kind = kind, !.ns = ns, !.filter = filter,
                                            !.update = update, !.items = items]))
    /\ connectCalls' = connectCalls + tasks'[i].connects
    /\ UNCHANGED <<clientState, destroyed, store>>

CallFind(i, ns, filter) == CallData(i, "find", ns, filter, Omitted, Omitted)
CallUpdate(i, ns, filter, update) == CallData(i, "update", ns, filter, update, Omitted)
CallAdd(i, ns, items) == CallData(i, "add", ns, Omitted, Omitted, items)
CallRemove(i, ns, filter) == CallData(i, "remove", ns, filter, Omitted, Omitted)

\* An operation that looks at the client again before its delegated call
\* and reconnects when the client is no longer connected.
Issue_recheck(t) ==
    IF IsConnected
    THEN [t EXCEPT !.pc = "awaitData", !.checks = @ + 1, !.dataCalls = @ + 1,
                   !.sent = DelegatedCall(t), !.issuedIn = clientState]
    ELSE [t EXCEPT !.pc = "awaitConnect", !.checks = @ + 1, !.connects = @ + 1,
                   !.connectStep = "pending"]

\* add that rejects an empty item list itself, without calling the client.
Issue_rejectEmpty(t) ==
    IF t.kind = "add" /\ Default(t.items, EmptyArray) = EmptyArray
    THEN [t EXCEPT !.pc = "done", !.thrown = "TypeError"]
    ELSE [t EXCEPT !.pc = "awaitData", !.dataCalls = @ + 1,
                   !.sent = DelegatedCall(t), !.issuedIn = clientState]

\* The delegated call is made (lines 71, 89, 106, 123); the client's state
\* is not looked at again.
Issue(t) ==
    [t EXCEPT !.pc = "awaitData", !.dataCalls = @ + 1,
              !.sent = DelegatedCall(t), !.issuedIn = clientState]

\* The operation resumes after await this.connect() and issues its
\* delegated call.
IssueData(i) ==
    /\ tasks[i].kind \in DataKinds
    /\ tasks[i].pc = "connected"
    /\ tasks' = [tasks EXCEPT ![i] = Issue(tasks[i])]
    /\ connectCalls' = connectCalls + (tasks'[i].connects - tasks[i].connects)
    /\ UNCHANGED <<clientState, destroyed, store, calls>>

\* What the collection holds after a call, and what the call returns.
Outcome(call, docs) ==
    CASE call.method = "find" ->
           [docs |-> docs, result |-> Select(docs, call.filter)]
      [] call.method = "updateMany" ->
           [docs |-> UpdateMany(docs, call.filter, call.update),
            result |-> [matchedCount |-> Len(Select(docs, call.filter))]]
      [] call.method = "insertMany" ->
           [docs |-> docs \o call.items,
            result |-> [insertedCount |-> Len(call.items)]]
      [] call.method = "deleteMany" ->
           [docs |-> Reject(docs, call.filter),
            result |-> [deletedCount |-> Len(Select(docs, call.filter))]]

\* The promise of the delegated call is fulfilled.
DataOk(i) ==
    /\ tasks[i].pc = "awaitData"
    /\ LET call == tasks[i].sent
           out == Outcome(call, store[call.ns])
       IN /\ store' = [store EXCEPT ![call.ns] = out.docs]
          /\ tasks' = [tasks EXCEPT ![i].pc = "done", ![i].result = out.result]
    /\ UNCHANGED <<clientState, connectCalls, destroyed, calls>>

\* The promise of the delegated call is rejected.
DataFail(i, error) ==
    /\ tasks[i].pc = "awaitData"
    /\ tasks' = [tasks EXCEPT ![i] = Failed(tasks[i], error, "data")]
    /\ connectCalls' = connectCalls + (tasks'[i].connects - tasks[i].connects)
    /\ UNCHANGED <<clientState, destroyed, store, calls>>

-----------------------------------------------------------------------------
(* The handle after construction, lines 16-20: the client exists and is    *)
(* not connected.                                                          *)

Init ==
    /\ clientState = "unconnected"
    /\ connectCalls = 0
    /\ destroyed = FALSE
    /\ store = (Coll :> <<Doc1, Doc2>>) @@ (Other :> <<Doc1>>)
    /\ tasks = [i \in Slots |-> Idle]
    /\ calls = 0

\* Calls of every kind, interleaved at their awaits.
Next ==
    \/ \E i \in Slots : CallConnect(i)
    \/ \E i \in Slots : CallDestroy(i)
    \/ \E i \in Slots : CallFind(i, Coll, Omitted)
    \/ \E i \in Slots : CallUpdate(i, Coll, Given([id |-> 2]), Given([name |-> "z"]))
    \/ \E i \in Slots : CallAdd(i, Coll, Given(<<Doc3>>))
    \/ \E i \in Slots : CallRemove(i, Coll, Given([id |-> 2]))
    \/ \E i \in Slots : ConnectOk(i)
    \/ \E i \in Slots, error \in Errors : ConnectFail(i, error)
    \/ \E i \in Slots : ConnectReturn(i)
    \/ \E i \in Slots : IssueData(i)
    \/ \E i \in Slots : DataOk(i)
    \/ \E i \in Slots, error \in Errors : DataFail(i, error)
    \/ \E i \in Slots : CloseOk(i)
    \/ \E i \in Slots, error \in Errors : CloseFail(i, error)

Spec == Init /\ [][Next]_vars

\* Data operations with every argument shape, one call after another.
DataNext ==
    \/ \E ns \in Namespaces, filter \in FilterArgs : CallFind(1, ns, filter)
    \/ \E ns \in Namespaces, filter \in FilterArgs, update \in UpdateArgs :
          CallUpdate(1, ns, filter, update)
    \/ \E ns \in Namespaces, items \in ItemsArgs : CallAdd(1, ns, items)
    \/ \E ns \in Namespaces, filter \in FilterArgs : CallRemove(1, ns, filter)
    \/ ConnectOk(1)
    \/ \E error \in Errors : ConnectFail(1, error)
    \/ IssueData(1)
    \/ DataOk(1)
    \/ \E error \in Errors : DataFail(1, error)

DataSpec == Init /\ [][DataNext]_vars

-----------------------------------------------------------------------------
(* Properties *)

\* The step is the start of a method call in slot i.
CallStep(i) == calls' = calls + 1 /\ tasks'[i] # tasks[i]

\* What the caller's optional argument stands for.
Meant(arg) == IF arg = Omitted THEN <<>> ELSE arg[1]

EmptyFilterArg(arg) == arg = Omitted \/ DOMAIN arg[1] = {}

EmptyItemsArg(arg) == arg = Omitted \/ Len(arg[1]) = 0

\* C1: connect() called on a handle whose client is connected makes no
\* client.connect() call (the count of connection attempts is unchanged)
\* and returns the handle itself.
C1_ConnectIdempotent ==
    /\ [][\A i \in Slots :
            (CallStep(i) /\ tasks'[i].kind = "connect" /\ clientState = "connected")
            => /\ connectCalls' = connectCalls
               /\ tasks'[i].connects = 0
               /\ tasks'[i].observed = "connected"]_vars
    /\ [](\A i \in Slots :
            (tasks[i].kind = "connect" /\ tasks[i].observed = "connected")
            => /\ tasks[i].connects = 0
               /\ tasks[i].thrown = NoError
               /\ (tasks[i].pc = "done" => tasks[i].result = This))

\* Reached: a connect() called on a connected handle has returned the handle; one connection attempt in all.
C1_Witness ==
    \E i \in Slots :
        /\ tasks[i].kind = "connect"
        /\ tasks[i].observed = "connected"
        /\ tasks[i].pc = "done"
        /\ tasks[i].result = This
        /\ connectCalls = 1
        /\ calls >= 2

\* C2: once destroy() has completed the handle is closed for good: the
\* client is never connected again and no further client.connect() call is
\* made, whatever is called afterwards.
C2_ClosedForGood ==
    [][destroyed => (connectCalls' = connectCalls /\ clientState' # "connected")]_vars

\* C3: a data operation issues its delegated call only after its own connect
\* step has completed successfully.
C3_ConnectBeforeData ==
    \A i \in Slots :
        tasks[i].dataCalls > 0
        => /\ tasks[i].kind \in DataKinds
           /\ tasks[i].connectStep = "ok"
           /\ tasks[i].observed # "none"

\* Reached: an operation that made the connection itself has issued its delegated call.
C3_Witness ==
    \E i \in Slots :
        /\ tasks[i].kind \in DataKinds
        /\ tasks[i].dataCalls = 1
        /\ tasks[i].observed = "notConnected"
        /\ tasks[i].connectStep = "ok"

\* C4: a data operation ends with exactly the client's error and never
\* retries: after a failed connect step it has issued no delegated call and
\* made one connection attempt; after a failed delegated call it has issued
\* that call once.
C4_ErrorsPropagateUnchanged ==
    \A i \in Slots :
        tasks[i].kind \in DataKinds
        => /\ tasks[i].connects <= 1
           /\ tasks[i].dataCalls <= 1
           /\ (tasks[i].thrown # NoError
               => /\ tasks[i].pc = "done"
                  /\ tasks[i].clientErr \in Errors
                  /\ tasks[i].thrown = tasks[i].clientErr)
           /\ (tasks[i].clientErr # NoError
               => /\ tasks[i].pc = "done"
                  /\ tasks[i].thrown = tasks[i].clientErr
                  /\ tasks[i].result = NoResult)
           /\ (tasks[i].failedAt = "connect"
               => tasks[i].dataCalls = 0 /\ tasks[i].connects = 1)
           /\ (tasks[i].failedAt = "data" => tasks[i].dataCalls = 1)

\* Reached: one data operation ended with the error of its connect step, another with the error of its delegated call.
C4_Witness ==
    \E i, j \in Slots :
        /\ tasks[i].kind \in DataKinds
        /\ tasks[i].failedAt = "connect"
        /\ tasks[i].thrown = "MongoNetworkError"
        /\ tasks[j].kind \in DataKinds
        /\ tasks[j].failedAt = "data"
        /\ tasks[j].thrown = "MongoError"

\* C5: the check-then-act of connect() is not synchronized: a call that
\* starts while the client is not connected calls client.connect() itself
\* even when another call's connection attempt is still in flight, so two
\* attempts are made for one handle.
C5_RedundantConnect ==
    [][\A i \in Slots :
         (/\ CallStep(i)
          /\ tasks'[i].kind # "destroy"
          /\ clientState # "connected"
          /\ \E j \in Slots \ {i} : tasks[j].pc = "awaitConnect")
         => /\ connectCalls' = connectCalls + 1
            /\ tasks'[i].connects = 1
            /\ tasks'[i].pc = "awaitConnect"]_vars

\* Reached: two calls each await a connection attempt of their own on a handle not yet connected.
C5_Witness ==
    \E i, j \in Slots :
        /\ i # j
        /\ tasks[i].pc = "awaitConnect" /\ tasks[i].observed = "notConnected"
        /\ tasks[j].pc = "awaitConnect" /\ tasks[j].observed = "notConnected"
        /\ tasks[i].kind \in DataKinds
        /\ clientState = "unconnected"
        /\ connectCalls = 2
        /\ calls = 2

\* C10: a data operation looks at the connection state once, at its connect
\* step: when it resumes it issues its delegated call without another check
\* or connection attempt, also when destroy() has closed the client in
\* between.
C10_NoRecheck ==
    /\ [](\A i \in Slots : tasks[i].checks <= 1 /\ tasks[i].connects <= 1)
    /\ [][\A i \in Slots :
            (/\ tasks[i].kind \in DataKinds
             /\ tasks[i].pc = "connected"
             /\ tasks'[i] # tasks[i])
            => /\ tasks'[i].pc = "awaitData"
               /\ tasks'[i].dataCalls = 1
               /\ tasks'[i].issuedIn = clientState
               /\ tasks'[i].checks = tasks[i].checks
               /\ connectCalls' = connectCalls]_vars

\* Reached: a delegated call was issued while the client was closed by a completed destroy().
C10_Witness ==
    \E i \in Slots :
        /\ tasks[i].kind \in DataKinds
        /\ tasks[i].dataCalls = 1
        /\ tasks[i].issuedIn = "closed"
        /\ tasks[i].checks = 1
        /\ destroyed

\* C6, as stated: in a sequential run of data operations only the first
\* makes a connection attempt.
C6_FirstCallOnly ==
    [][(calls > 0 /\ calls' = calls + 1) => connectCalls' = connectCalls]_vars

\* C6, amended: in a sequential run of data operations each operation makes
\* one connection attempt when the client is not connected at its connect
\* step and none when it is; the client stays connected once an attempt has
\* succeeded, so the operations up to the first successful connect each
\* make one attempt and the later ones make none.
C6_ConnectUntilConnected ==
    /\ [][calls' = calls + 1
          => connectCalls' = connectCalls + (IF clientState = "connected" THEN 0 ELSE 1)]_vars
    /\ [][clientState = "connected" => clientState' = "connected"]_vars
    /\ [][calls' = calls => connectCalls' = connectCalls]_vars

\* Reached: the first operation's attempt failed, the second connected, the third made no attempt.
C6_Witness ==
    /\ calls = 3
    /\ connectCalls = 2
    /\ clientState = "connected"
    /\ tasks[1].kind \in DataKinds
    /\ tasks[1].observed = "connected"
    /\ tasks[1].connects = 0
    /\ tasks[1].pc = "done"

\* C7: a find that returns gives, as a list, exactly the documents
\* currently in the collection that match the filter, in the collection's
\* order; with the empty or omitted filter, every document of the
\* collection.  The collection is what the earlier add, update and remove
\* calls left.
C7_FindReturnsMatching ==
    [][(/\ tasks[1].kind = "find"
        /\ tasks[1].pc = "awaitData"
        /\ tasks'[1].pc = "done"
        /\ tasks'[1].thrown = NoError)
       => LET docs == store[tasks[1].ns]
              f == Meant(tasks[1].filter)
              hit(d) == \A k \in DOMAIN f : d[k] = f[k]
          IN /\ tasks'[1].result = SelectSeq(docs, hit)
             /\ (EmptyFilterArg(tasks[1].filter) => tasks'[1].result = docs)
             /\ store' = store]_vars

\* Reached: after a remove and an add, find with no filter returned the remaining and the inserted document.
C7_Witness ==
    /\ tasks[1].kind = "find"
    /\ tasks[1].pc = "done"
    /\ tasks[1].thrown = NoError
    /\ tasks[1].ns = Coll
    /\ tasks[1].filter = Omitted
    /\ tasks[1].result = <<Doc1, Doc3>>
    /\ calls = 3

\* C8: a remove with the empty or omitted filter that succeeds leaves the
\* target collection empty, an update with the empty or omitted filter that
\* succeeds applies the update to every document of it, and both leave the
\* other collections as they were.
C8_EmptyFilterAffectsAll ==
    [][(/\ tasks[1].kind \in {"update", "remove"}
        /\ EmptyFilterArg(tasks[1].filter)
        /\ tasks[1].pc = "awaitData"
        /\ tasks'[1].pc = "done"
        /\ tasks'[1].thrown = NoError)
       => LET ns == tasks[1].ns
              u == Meant(tasks[1].update)
          IN /\ \A other \in Namespaces \ {ns} : store'[other] = store[other]
             /\ tasks[1].kind = "remove" => store'[ns] = <<>>
             /\ tasks[1].kind = "update"
                => /\ Len(store'[ns]) = Len(store[ns])
                   /\ \A n \in 1..Len(store[ns]) :
                        /\ \A k \in DOMAIN u : store'[ns][n][k] = u[k]
                        /\ \A k \in (DOMAIN store[ns][n]) \ (DOMAIN u) :
                             store'[ns][n][k] = store[ns][n][k]]_vars

\* Reached: remove with no filter emptied the target collection and left the other one alone.
C8_Witness ==
    /\ tasks[1].kind = "remove"
    /\ tasks[1].pc = "done"
    /\ tasks[1].thrown = NoError
    /\ tasks[1].filter = Omitted
    /\ tasks[1].ns = Coll
    /\ tasks[1].result.deletedCount = 3
    /\ store[Coll] = <<>>
    /\ store[Other] = <<Doc1>>

\* C9, as stated: add with an empty or omitted item list issues exactly one
\* insert call with zero items and does not throw.
C9_EmptyAddNeverThrows ==
    (/\ tasks[1].kind = "add"
     /\ EmptyItemsArg(tasks[1].items)
     /\ tasks[1].pc = "done")
    => /\ tasks[1].thrown = NoError
       /\ tasks[1].dataCalls = 1
       /\ tasks[1].sent.items = <<>>

\* C9, amended: add with an empty or omitted item list runs its connect
\* step and, unless that step fails, issues exactly one insert call with
\* zero items; it throws only an error of the client (from connect or from
\* the insert call), unchanged; the collections' documents are unchanged.
C9_EmptyAddPassesThrough ==
    /\ [](\A i \in Slots :
            (tasks[i].kind = "add" /\ EmptyItemsArg(tasks[i].items))
            => /\ tasks[i].checks = 1
               /\ tasks[i].dataCalls <= 1
               /\ (tasks[i].dataCalls = 1
                   => /\ tasks[i].connectStep = "ok"
                      /\ tasks[i].sent.method = "insertMany"
                      /\ tasks[i].sent.ns = tasks[i].ns
                      /\ tasks[i].sent.items = <<>>)
               /\ (tasks[i].pc = "done"
                   => /\ tasks[i].thrown = tasks[i].clientErr
                      /\ (tasks[i].failedAt # "connect" => tasks[i].dataCalls = 1)
                      /\ (tasks[i].thrown = NoError
                          => tasks[i].result = [insertedCount |-> 0])))
    /\ [][\A i \in Slots :
            (tasks'[i].kind = "add" /\ EmptyItemsArg(tasks'[i].items) /\ tasks'[i] # tasks[i])
            => store' = store]_vars

\* Reached: add with no items issued one insert call of zero items and returned.
C9_Witness ==
    /\ tasks[1].kind = "add"
    /\ tasks[1].items = Omitted
    /\ tasks[1].pc = "done"
    /\ tasks[1].thrown = NoError
    /\ tasks[1].dataCalls = 1
    /\ tasks[1].sent.items = <<>>
    /\ tasks[1].result = [insertedCount |-> 0]

====
